---- MODULE Spec2Model ----
(***************************************************************************)
(* thingspeak-uploader/uploader.py: the serial-ingest / timed-upload loop. *)
(*                                                                         *)
(* Text is a sequence of one-character strings; a serial line is the       *)
(* sequence of bytes readline() returns.  Time is counted in units of      *)
(* half a second, the length of the loop's sleep, so every duration the    *)
(* code names (0.5 s, 2 s, 60 s) is a whole number of units.               *)
(***************************************************************************)
EXTENDS Integers, Sequences, FiniteSets, TLC

----------------------------------------------------------------------------
(* Text                                                                    *)

\* A byte that is not valid UTF-8; decode(errors="ignore") drops it.
BadByte == "<ff>"

DigitChars == {"0", "1", "2", "3", "4", "5", "6", "7", "8", "9"}

\* The regex class [\d.]
DigitOrDotChars == DigitChars \cup {"."}

\* What str.strip() removes.
WhitespaceChars == {" ", "\t", "\r", "\n"}

DigitVal(c) ==
    CASE c = "0" -> 0 [] c = "1" -> 1 [] c = "2" -> 2 [] c = "3" -> 3
      [] c = "4" -> 4 [] c = "5" -> 5 [] c = "6" -> 6 [] c = "7" -> 7
      [] c = "8" -> 8 [] c = "9" -> 9

\* bytes.decode("utf-8", errors="ignore")
Decode(raw) == SelectSeq(raw, LAMBDA b : b # BadByte)

\* str.strip()
Strip(s) ==
    LET keep == {i \in 1..Len(s) : s[i] \notin WhitespaceChars}
    IN  IF keep = {} THEN <<>>
        ELSE LET lo == CHOOSE i \in keep : \A j \in keep : i <= j
                 hi == CHOOSE i \in keep : \A j \in keep : j <= i
             IN  SubSeq(s, lo, hi)

\* s[i:].startswith(p), with i counted from 1
StartsWithAt(s, p, i) ==
    /\ i + Len(p) - 1 <= Len(s)
    /\ \A k \in 1..Len(p) : s[i + k - 1] = p[k]

\* p in s
Contains(s, p) == \E i \in 1..(Len(s) + 1) : StartsWithAt(s, p, i)

\* Index of the last character of the longest run of class characters that
\* starts at i (i - 1 when s[i] is not in the class).
RunEnd(s, i, class) ==
    LET stops == {j \in i..(Len(s) + 1) : j > Len(s) \/ s[j] \notin class}
    IN  (CHOOSE j \in stops : \A k \in stops : j <= k) - 1

\* A match of  label (class+) suffix  that starts at i.  The suffix never
\* begins with a class character, so the greedy class+ can only take the
\* whole run and no backtracking finds another match.
MatchesAt(s, i, label, class, suffix) ==
    /\ StartsWithAt(s, label, i)
    /\ LET from == i + Len(label)
           to   == RunEnd(s, from, class)
       IN  to >= from /\ StartsWithAt(s, suffix, to + 1)

NoMatch == <<"no match">>

\* re.search(label (class+) suffix, s): group(1) of the leftmost match.
ReSearch(s, label, class, suffix) ==
    LET hits == {i \in 1..Len(s) : MatchesAt(s, i, label, class, suffix)}
    IN  IF hits = {} THEN NoMatch
        ELSE LET i    == CHOOSE h \in hits : \A g \in hits : h <= g
                 from == i + Len(label)
             IN  SubSeq(s, from, RunEnd(s, from, class))

----------------------------------------------------------------------------
(* Numbers                                                                 *)

RECURSIVE DigitsValue(_)
\* int() of a run of digits
DigitsValue(ds) ==
    IF ds = <<>> THEN 0
    ELSE 10 * DigitsValue(SubSeq(ds, 1, Len(ds) - 1)) + DigitVal(ds[Len(ds)])

None == [tag |-> "None"]

IntValue(n) == [tag |-> "int", val |-> n]

RECURSIVE Normalize(_, _)
\* mant / 10^scale without trailing zeros of the fraction, so that equal
\* floats have equal representations (25.0 = 25.00 = 25.)
Normalize(mant, scale) ==
    IF scale > 0 /\ mant % 10 = 0 THEN Normalize(mant \div 10, scale - 1)
    ELSE [tag |-> "float", mant |-> mant, scale |-> scale]

\* float() accepts a run of [\d.] when it holds at most one dot and at
\* least one digit; anything else raises ValueError.
FloatAccepts(txt) ==
    /\ Cardinality({i \in 1..Len(txt) : txt[i] = "."}) <= 1
    /\ \E i \in 1..Len(txt) : txt[i] \in DigitChars

\* float(txt) for an accepted txt
ToFloat(txt) ==
    LET digits == SelectSeq(txt, LAMBDA c : c \in DigitChars)
        dots   == {i \in 1..Len(txt) : txt[i] = "."}
        scale  == IF dots = {} THEN 0 ELSE Len(txt) - (CHOOSE i \in dots : TRUE)
    IN  Normalize(DigitsValue(digits), scale)

\* int(txt) for a run of digits
ToInt(txt) == IntValue(DigitsValue(txt))

----------------------------------------------------------------------------
(* parse_sensor_data                                                       *)

TempLabel ==
    <<"T", "e", "m", "p", ":", " ">>

WaterLabel ==
    <<"W", "a", "t", "e", "r", ":", " ">>

SoundLabel ==
    <<"S", "o", "u", "n", "d", ":", " ">>

LightLabel ==
    <<"L", "i", "g", "h", "t", ":", " ">>

TempNA ==
    <<"T", "e", "m", "p", ":", " ", "N", "A">>

WaterNA ==
    <<"W", "a", "t", "e", "r", ":", " ", "N", "A">>

SoundNA ==
    <<"S", "o", "u", "n", "d", ":", " ", "N", "A">>

LightNA ==
    <<"L", "i", "g", "h", "t", ":", " ", "N", "A">>

DegreeSuffix == <<"C">>

PercentSuffix == <<"%">>

LuxSuffix ==
    <<" ", "l", "u", "x">>

Fields == {"water_temp", "water_level", "sound", "light"}

\* data = {}
EmptyDict == [f \in {} |-> None]

\* re.search(r"Temp: ([\d.]+)C", line)
temp_match(line) == ReSearch(line, TempLabel, DigitOrDotChars, DegreeSuffix)

\* re.search(r"Water: (\d+)%", line)
water_match(line) == ReSearch(line, WaterLabel, DigitChars, PercentSuffix)

\* re.search(r"Sound: (\d+)%", line)
sound_match(line) == ReSearch(line, SoundLabel, DigitChars, PercentSuffix)

\* re.search(r"Light: (\d+) lux", line)
light_match(line) == ReSearch(line, LightLabel, DigitChars, LuxSuffix)

\* float(temp_match.group(1)) raises ValueError
ParseRaises(line) ==
    /\ temp_match(line) # NoMatch
    /\ ~FloatAccepts(temp_match(line))

\* The entry one field contributes: its value when the pattern matches,
\* None when the line holds the field's NA token instead, nothing otherwise.
FieldEntry(name, line, match, value, na) ==
    IF match # NoMatch THEN name :> value
    ELSE IF Contains(line, na) THEN name :> None
    ELSE EmptyDict

\* parse_sensor_data(line), for a line on which it does not raise
parse_sensor_data(line) ==
    LET t == temp_match(line)
        w == water_match(line)
        s == sound_match(line)
        l == light_match(line)
    IN  FieldEntry("water_temp", line, t,
                   IF t # NoMatch THEN ToFloat(t) ELSE None, TempNA)
        @@ FieldEntry("water_level", line, w,
                      IF w # NoMatch THEN ToInt(w) ELSE None, WaterNA)
        @@ FieldEntry("sound", line, s,
                      IF s # NoMatch THEN ToInt(s) ELSE None, SoundNA)
        @@ FieldEntry("light", line, l,
                      IF l # NoMatch THEN ToInt(l) ELSE None, LightNA)

----------------------------------------------------------------------------
(* send_data_to_thingspeak                                                 *)

ApiKey == [tag |-> "str", val |-> "thingspeak_api_key"]

\* Mutant of HasValue: the test is "name in data", so a None counts as a value.
HasValueKeyOnly(data, name) == name \in DOMAIN data

\* data.get(name) is not None
HasValue(data, name) == name \in DOMAIN data /\ data[name] # None

\* One parameter of the request, when the field has a value.
Param(data, param, name) ==
    IF HasValue(data, name) THEN param :> data[name] ELSE EmptyDict

\* Mutant of Payload: field3 and field4 follow the record's order (sound,
\* light) instead of the channel's.
PayloadRecordOrder(api_key, data) ==
    ("api_key" :> api_key)
    @@ Param(data, "field1", "water_temp")
    @@ Param(data, "field2", "water_level")
    @@ Param(data, "field3", "sound")
    @@ Param(data, "field4", "light")

\* payload, as built before the request is made
Payload(api_key, data) ==
    ("api_key" :> api_key)
    @@ Param(data, "field1", "water_temp")
    @@ Param(data, "field2", "water_level")
    @@ Param(data, "field3", "light")
    @@ Param(data, "field4", "sound")

----------------------------------------------------------------------------
(* What the device can put on the serial line                              *)

Sep ==
    <<" ", "|", " ">>

EOL ==
    <<"\r", "\n">>

TempReading ==
    <<"T", "e", "m", "p", ":", " ", "2", "5", ".", "0", "C">>

TempDots ==
    <<"T", "e", "m", "p", ":", " ", ".", ".", ".", "C">>

TempSplit ==
    <<"T", "e", BadByte, "m", "p", ":", " ", "2", "5", ".", "0", "C">>

WaterReading ==
    <<"W", "a", "t", "e", "r", ":", " ", "5", "0", "%">>

SoundReading ==
    <<"S", "o", "u", "n", "d", ":", " ", "4", "5", "%">>

SoundZero ==
    <<"S", "o", "u", "n", "d", ":", " ", "0", "%">>

LightReading ==
    <<"L", "i", "g", "h", "t", ":", " ", "1", "2", "3", " ", "l", "u", "x">>

BannerText ==
    <<"=", "=", "=", " ", "S", "e", "n", "s", "o", "r", " ", "=", "=", "=">>

BootText ==
    <<"b", "o", "o", "t", " ", "o", "k">>

\* Temp: 25.0C | Water: 50% | Sound: 45% | Light: 123 lux
FullLine ==
    TempReading \o Sep \o WaterReading \o Sep \o SoundReading \o Sep
    \o LightReading \o EOL

\* Temp: NA
TempNALine == TempNA \o EOL

\* Temp: NA | Water: 50% | Light: 123 lux
MixedLine == TempNA \o Sep \o WaterReading \o Sep \o LightReading \o EOL

\* Sound: 0%
SoundZeroLine == SoundZero \o EOL

\* Temp: 25.0C with an undecodable byte inside the label
TempSplitLine == TempSplit \o EOL

\* Temp: ...C | Water: 50%
MalformedLine == TempDots \o Sep \o WaterReading \o EOL

\* === Sensor ===
BannerLine == BannerText \o EOL

\* a line that holds only its terminator
BlankLine == EOL

\* boot ok
BootLine == BootText \o EOL

SerialLines ==
    {FullLine, TempNALine, MixedLine, SoundZeroLine, TempSplitLine,
     MalformedLine, BannerLine, BlankLine, BootLine}

----------------------------------------------------------------------------
(* main                                                                    *)

\* time.sleep(0.5), in half seconds
TickSleep == 1

\* time.sleep(2) after the port is opened, in half seconds
SettleDelay == 4

\* last_send = 0.0
InitialLastSend == 0

\* send_interval_minutes = 1, in half seconds
MinuteInterval == 60 * 2

\* A short configured interval (1.5 s), so that several uploads fit in a run.
ShortInterval == 3

\* A reading of time.time() on a host whose clock is set: far more than any
\* interval after the epoch.
EpochNow == 1000

\* The clock is followed for this long after the program starts.
MaxElapsed == 8

\* The longest time a request is modelled to take.
MaxHttpDelay == 1

\* config["send_interval_minutes"] * 60
SendIntervals == {ShortInterval, MinuteInterval}

\* time.time() when the program starts: a clock at the epoch, or a set clock
StartClocks == {0, EpochNow}

NoLine == <<"no line">>

VARIABLES
    pc,                     \* where main() is
    exit,                   \* how main() ended, "running" until it has
    ser_open,               \* ser.is_open
    now,                    \* what time.time() returns
    started,                \* time.time() when the program started
    send_interval_seconds,
    last_send,
    latest_data,
    current_time,
    line,                   \* the line read in this iteration, or NoLine
    data_arg,               \* data, the record handed to the latest send call
    payload,                \* payload of the latest send call
    outcome,                \* what the latest send call returned
    calls,                  \* send calls made in this iteration
    arrival,                \* time.time() when the first record was stored
    ok_times                \* current_time of the last two successful uploads

vars ==
    <<pc, exit, ser_open, now, started, send_interval_seconds, last_send,
      latest_data, current_time, line, data_arg, payload, outcome, calls,
      arrival, ok_times>>

LoopPcs == {"read", "gate", "http", "sleep"}

\* not line or "===" in line
Discarded(l) == l = <<>> \/ Contains(l, <<"=", "=", "=">>)

\* Mutant of Store: the new record is merged into the old one.
StoreMerged(latest, data) == data @@ latest

\* if data: latest_data = data
Store(latest, data) == IF data # EmptyDict THEN data ELSE latest

\* Mutant of GateOpen: the interval is not looked at.
GateOpenAnyTime(latest, cur, last, interval) == latest # EmptyDict

\* latest_data and (current_time - last_send >= send_interval_seconds)
GateOpen(latest, cur, last, interval) ==
    latest # EmptyDict /\ cur - last >= interval

\* Mutant of AfterSend: last_send is set whatever the send returned.
AfterSendAlways(ok, cur, last) == cur

\* Mutant of AfterSend: last_send is never set.
AfterSendNever(ok, cur, last) == last

\* last_send after send_data_to_thingspeak has returned ok
AfterSend(ok, cur, last) == IF ok THEN cur ELSE last

\* the last two entries of a log
LastTwo(log) == IF Len(log) > 2 THEN Tail(log) ELSE log

Init ==
    /\ pc = "open"
    /\ exit = "running"
    /\ ser_open = FALSE
    /\ started \in StartClocks
    /\ now = started
    /\ send_interval_seconds \in SendIntervals
    /\ last_send = InitialLastSend
    /\ latest_data = EmptyDict
    /\ current_time = 0
    /\ line = NoLine
    /\ data_arg = EmptyDict
    /\ payload = EmptyDict
    /\ outcome = "none"
    /\ calls = 0
    /\ arrival = -1
    /\ ok_times = <<>>

\* ser = serial.Serial(port, baud_rate, timeout=1)
OpenSerial ==
    /\ pc = "open"
    /\ pc' = "settle"
    /\ ser_open' = TRUE
    /\ UNCHANGED <<exit, now, started, send_interval_seconds, last_send,
                   latest_data, current_time, line, data_arg, payload,
                   outcome, calls, arrival, ok_times>>

\* serial.SerialException: logged, and main() returns
OpenSerialFails ==
    /\ pc = "open"
    /\ pc' = "done"
    /\ exit' = "return"
    /\ UNCHANGED <<ser_open, now, started, send_interval_seconds, last_send,
                   latest_data, current_time, line, data_arg, payload,
                   outcome, calls, arrival, ok_times>>

\* time.sleep(2), then last_send = 0.0 and latest_data = {}
Settle ==
    /\ pc = "settle"
    /\ pc' = "read"
    /\ now' = now + SettleDelay
    /\ last_send' = InitialLastSend
    /\ latest_data' = EmptyDict
    /\ UNCHANGED <<exit, ser_open, started, send_interval_seconds,
                   current_time, line, data_arg, payload, outcome, calls,
                   arrival, ok_times>>

\* KeyboardInterrupt before the loop's try is entered: only SerialException
\* is caught there, so it leaves main() with the port as it is.
InterruptBeforeLoop ==
    /\ pc = "settle"
    /\ pc' = "done"
    /\ exit' = "KeyboardInterrupt"
    /\ UNCHANGED <<ser_open, now, started, send_interval_seconds, last_send,
                   latest_data, current_time, line, data_arg, payload,
                   outcome, calls, arrival, ok_times>>

\* KeyboardInterrupt inside the loop's try: caught, and finally closes ser.
InterruptInLoop ==
    /\ pc \in LoopPcs
    /\ pc' = "done"
    /\ exit' = "interrupted"
    /\ ser_open' = FALSE
    /\ UNCHANGED <<now, started, send_interval_seconds, last_send,
                   latest_data, current_time, line, data_arg, payload,
                   outcome, calls, arrival, ok_times>>

\* ser.in_waiting == 0: nothing is read and the iteration goes on to the gate
ReadNothing ==
    /\ pc = "read"
    /\ pc' = "gate"
    /\ line' = NoLine
    /\ calls' = 0
    /\ UNCHANGED <<exit, ser_open, now, started, send_interval_seconds,
                   last_send, latest_data, current_time, data_arg, payload,
                   outcome, arrival, ok_times>>

\* ser.in_waiting > 0: one line is read, decoded and stripped, then
\* discarded (continue), or parsed and, when the record is not empty, stored
ReadLine ==
    /\ pc = "read"
    /\ \E raw \in SerialLines :
         LET l == Strip(Decode(raw))
         IN  /\ line' = l
             /\ calls' = 0
             /\ \/ /\ Discarded(l)
                   /\ pc' = "read"
                   /\ UNCHANGED <<exit, ser_open, latest_data, arrival>>
                \/ /\ ~Discarded(l)
                   /\ ParseRaises(l)
                   /\ pc' = "done"
                   /\ exit' = "ValueError"
                   /\ ser_open' = FALSE
                   /\ UNCHANGED <<latest_data, arrival>>
                \/ /\ ~Discarded(l)
                   /\ ~ParseRaises(l)
                   /\ pc' = "gate"
                   /\ latest_data' = Store(latest_data, parse_sensor_data(l))
                   /\ arrival' = IF arrival = -1 /\ latest_data' # EmptyDict
                                 THEN now ELSE arrival
                   /\ UNCHANGED <<exit, ser_open>>
    /\ UNCHANGED <<now, started, send_interval_seconds, last_send,
                   current_time, data_arg, payload, outcome, ok_times>>

\* current_time = time.time() and the test that guards the upload; when it
\* passes send_data_to_thingspeak is entered and builds its payload
Gate ==
    /\ pc = "gate"
    /\ current_time' = now
    /\ IF GateOpen(latest_data, now, last_send, send_interval_seconds)
       THEN /\ pc' = "http"
            /\ data_arg' = latest_data
            /\ payload' = Payload(ApiKey, latest_data)
            /\ calls' = calls + 1
       ELSE /\ pc' = "sleep"
            /\ UNCHANGED <<data_arg, payload, calls>>
    /\ UNCHANGED <<exit, ser_open, now, started, send_interval_seconds,
                   last_send, latest_data, line, outcome, arrival, ok_times>>

\* requests.get(...) and raise_for_status(): the call takes d and returns
\* True, or raises a RequestException and returns False
Http ==
    /\ pc = "http"
    /\ \E ok \in BOOLEAN, d \in 0..MaxHttpDelay :
         /\ now + d - started <= MaxElapsed
         /\ now' = now + d
         /\ outcome' = IF ok THEN "ok" ELSE "failed"
         /\ last_send' = AfterSend(ok, current_time, last_send)
         /\ ok_times' = IF ok THEN LastTwo(Append(ok_times, current_time))
                               ELSE ok_times
    /\ pc' = "sleep"
    /\ UNCHANGED <<exit, ser_open, started, send_interval_seconds,
                   latest_data, current_time, line, data_arg, payload, calls,
                   arrival>>

\* time.sleep(0.5), and the next iteration begins
Sleep ==
    /\ pc = "sleep"
    /\ now + TickSleep - started <= MaxElapsed
    /\ now' = now + TickSleep
    /\ pc' = "read"
    /\ line' = NoLine
    /\ UNCHANGED <<exit, ser_open, started, send_interval_seconds, last_send,
                   latest_data, current_time, data_arg, payload, outcome,
                   calls, arrival, ok_times>>

Next ==
    \/ OpenSerial
    \/ OpenSerialFails
    \/ Settle
    \/ InterruptBeforeLoop
    \/ InterruptInLoop
    \/ ReadNothing
    \/ ReadLine
    \/ Gate
    \/ Http
    \/ Sleep

Spec == Init /\ [][Next]_vars

----------------------------------------------------------------------------
(* Properties                                                              *)

\* The upload is due at clock reading t.
Eligible(t) ==
    latest_data # EmptyDict /\ t - last_send >= send_interval_seconds

\* No upload has succeeded yet.
NeverSent == ok_times = <<>> /\ last_send = InitialLastSend

\* C1 as stated: with a one-minute interval and no upload yet, no call of
\* send_data_to_thingspeak is made earlier than 60 s after the first record
\* arrived.
C1_NoCallBeforeAMinute ==
    (pc = "http" /\ send_interval_seconds = MinuteInterval /\ NeverSent)
        => (arrival # -1 /\ current_time - arrival >= MinuteInterval)

\* C1 amended: with a one-minute interval and last_send still 0.0, the gate
\* measures time.time() itself against the interval, not the time since the
\* record arrived: a call is made at exactly those gate checks that hold a
\* record while time.time() >= 60 s (on a host with a set clock, the tick in
\* which the first record is stored), and at no gate check before that.
C1_FirstCallAtArrival ==
    (send_interval_seconds = MinuteInterval /\ NeverSent)
        => /\ pc = "http"
                => (data_arg # EmptyDict /\ current_time >= MinuteInterval)
           /\ (pc = "sleep" /\ calls = 0)
                => (latest_data = EmptyDict \/ current_time < MinuteInterval)

\* C1 witness: the call is in progress in the tick the first record arrived.
C1_Witness ==
    /\ pc = "http"
    /\ send_interval_seconds = MinuteInterval
    /\ NeverSent
    /\ current_time = arrival

\* C2 as stated: every iteration performs the upload check, whatever it
\* read: no iteration ends with a record held and the interval elapsed
\* without having called send_data_to_thingspeak.
C2_EveryIterationChecks ==
    /\ (pc = "sleep" /\ calls = 0) => ~Eligible(current_time)
    /\ (pc = "read" /\ line # NoLine) => ~Eligible(now)

\* C3 as stated: a failed send leaves last_send and latest_data as they
\* were, and the iteration after it, unless it parses a new record, calls
\* send_data_to_thingspeak again with the same record.
C3_RetryNextTick ==
    [][/\ (pc = "http" /\ pc' = "sleep" /\ outcome' = "failed")
            => (last_send' = last_send /\ latest_data' = latest_data)
       /\ (pc = "read" /\ outcome = "failed" /\ exit' # "interrupted"
             /\ latest_data' = latest_data)
            => pc' = "gate"
       /\ (pc = "gate" /\ outcome = "failed" /\ exit' # "interrupted"
             /\ latest_data = data_arg)
            => (pc' = "http" /\ data_arg' = data_arg)]_vars

\* C4 as stated: once the loop is entered, only the interrupt ends it.
C4_OnlyInterruptEndsLoop ==
    [][(pc \in LoopPcs /\ pc' = "done") => exit' = "interrupted"]_vars

\* C5 as stated: an interrupt that arrives after the port was opened is
\* caught, and no terminated state has the serial handle still open.
C5_InterruptClosesPort ==
    pc = "done"
        => /\ ~ser_open
           /\ exit \in {"interrupted", "KeyboardInterrupt"}
                => exit = "interrupted"

\* C6: last_send changes only in a step in which the send returned True,
\* and then to that tick's current_time, which is later than its old value.
C6_LastSendOnlyOnSuccess ==
    [][last_send' # last_send
         => /\ pc = "http"
            /\ outcome' = "ok"
            /\ last_send' = current_time
            /\ last_send' > last_send]_vars

\* C6 witness: an upload has just succeeded and moved last_send.
C6_Witness ==
    /\ pc = "sleep"
    /\ outcome = "ok"
    /\ calls = 1
    /\ last_send = current_time
    /\ last_send # InitialLastSend

\* C7: a read that yields a non-empty record makes latest_data exactly that
\* record; an empty line, a banner line or an empty record leaves it alone,
\* and so does every other step.
C7_SlotReplaced ==
    [][IF pc = "read" /\ pc' \in {"read", "gate"}
       THEN LET l == line'
            IN  IF l = NoLine \/ Discarded(l)
                THEN latest_data' = latest_data
                ELSE IF DOMAIN parse_sensor_data(l) = {}
                THEN latest_data' = latest_data
                ELSE /\ latest_data' = parse_sensor_data(l)
                     /\ DOMAIN latest_data' = DOMAIN parse_sensor_data(l)
       ELSE latest_data' = latest_data]_vars

\* C7 witness: the record just stored lacks a field that the record sent
\* before it had.
C7_Witness ==
    /\ pc = "gate"
    /\ line # NoLine
    /\ latest_data = parse_sensor_data(line)
    /\ DOMAIN data_arg \ DOMAIN latest_data # {}

NullTempRecord == "water_temp" :> None

\* C8: the line "Temp: NA" is stored as {water_temp: None}; a gate check
\* that holds this record with the interval elapsed calls the send, whose
\* request has no field parameter at all; when that send returns True,
\* last_send becomes the tick's current_time.
C8_NullRecordUploaded ==
    [][/\ (pc = "read" /\ exit' = "running"
             /\ line' = Strip(Decode(TempNALine)))
            => (pc' = "gate" /\ latest_data' = NullTempRecord
                /\ DOMAIN latest_data' = {"water_temp"})
       /\ (pc = "gate" /\ exit' = "running"
             /\ latest_data = NullTempRecord
             /\ now - last_send >= send_interval_seconds)
            => (pc' = "http" /\ data_arg' = NullTempRecord
                /\ DOMAIN payload' = {"api_key"})
       /\ (pc = "http" /\ exit' = "running"
             /\ data_arg = NullTempRecord /\ outcome' = "ok")
            => last_send' = current_time]_vars

\* C8 witness: the record {water_temp: None} has just been uploaded.
C8_Witness ==
    /\ pc = "sleep"
    /\ calls = 1
    /\ outcome = "ok"
    /\ data_arg = NullTempRecord
    /\ "field1" \notin DOMAIN payload
    /\ last_send = current_time

\* Field1: water-temp, Field2: water-level, Field3: light, Field4: sound
ParamOf ==
    [water_temp |-> "field1", water_level |-> "field2",
     light |-> "field3", sound |-> "field4"]

\* C9: the request of a send call carries api_key and, for each field, its
\* parameter exactly when the held record has a value for it, with that
\* value, and nothing else.
C9_PayloadMapping ==
    pc = "http"
        => /\ data_arg = latest_data
           /\ DOMAIN payload \subseteq {"api_key"} \cup {ParamOf[f] : f \in Fields}
           /\ "api_key" \in DOMAIN payload
           /\ payload["api_key"] = ApiKey
           /\ \A f \in Fields :
                /\ ParamOf[f] \in DOMAIN payload
                     <=> (f \in DOMAIN latest_data /\ latest_data[f] # None)
                /\ ParamOf[f] \in DOMAIN payload
                     => payload[ParamOf[f]] = latest_data[f]

\* C9 witness: a request for a record with a value, a None and a missing
\* field.
C9_Witness ==
    /\ pc = "http"
    /\ \E f \in DOMAIN latest_data : latest_data[f] = None
    /\ \E f \in DOMAIN latest_data : latest_data[f] # None
    /\ DOMAIN latest_data # Fields

\* C10: an iteration calls send_data_to_thingspeak at most once, and two
\* consecutive successful uploads were attempted at clock readings at least
\* send_interval_seconds apart.
C10_RateLimit ==
    /\ calls <= 1
    /\ Len(ok_times) = 2 => ok_times[2] - ok_times[1] >= send_interval_seconds

\* C10 witness: a second upload has just succeeded, in a tick that read no
\* line and so sent a record that was already held.
C10_Witness ==
    /\ pc = "sleep"
    /\ outcome = "ok"
    /\ Len(ok_times) = 2
    /\ line = NoLine
    /\ ok_times[2] = current_time

====
